---- MODULE Spec2Model ----
(***************************************************************************)
(* Incremental RSS ingestion-and-enrichment pipeline                       *)
(* (src/main.py, src/news_insights/collector.py, src/news_processor.py).   *)
(*                                                                         *)
(* Three specifications share the module:                                  *)
(*   Spec         runs of the whole pipeline (process_feeds / __main__)    *)
(*   SpecIngest   consecutive calls of download_entries on one feed        *)
(*   SpecExtract  extract_actors applied to a batch of articles            *)
(***************************************************************************)
EXTENDS Integers, Sequences, FiniteSets, TLC

VARIABLES
    variant,        \* "collector" (NewsCollector.process_feeds) or "script" (main.py __main__)
    feed,           \* feed[k]: the entries the k-th configured feed serves
    stateFile,      \* the state file on disk (rss_state.json)
    tables,         \* the Delta tables, by storage path: rows appended so far
    pc,             \* position of the current run
    i,              \* create_press_releases_sources: index of the feed being downloaded
    table_sources,  \* create_press_releases_sources: tables collected so far
    j,              \* process_feeds: index of the source being stored
    t,              \* outcome of the last download_entries call
    err,            \* exception that ended the run ("none" when none)
    runs,           \* number of runs (Spec) or download_entries calls (SpecIngest) started
    curated_table,  \* process_feeds local: the curated batch of the current source
    responses,      \* what the enrichment capability answered for each article of the batch
    actors_table,   \* outcome of the last extract_actors call
    initial_ids,    \* history: the ids the state file held before the first run
    failed_batch,   \* history: rows of the batches for which a table append failed
    no_pending,     \* history: feeds (indices) that signalled EOFError with the fetch working, this run
    fetch_failed,   \* history: feeds (indices) whose fetch failed, this run
    prev_t,         \* SpecIngest history: outcome of the call before the last
    prev_state,     \* SpecIngest history: the state file before the last call
    analysis,       \* SpecAnalyze: what the analyze_text call returned
    workers         \* SpecConcurrent: the download_entries invocations sharing the state file

vars == <<variant, feed, stateFile, tables, pc, i, table_sources, j, t, err, runs,
          curated_table, responses, actors_table, initial_ids, failed_batch,
          no_pending, fetch_failed, prev_t, prev_state, analysis, workers>>

----------------------------------------------------------------------------
(* Bounds of the model *)

NumFeeds == 2       \* configured feeds modelled (a prefix of RSS_FEEDS)
NumGuids == 2       \* distinct guids the feeds may serve
MaxEntries == 2     \* entries one feed document lists
MaxRuns == 2        \* pipeline runs (Spec) / download_entries calls (SpecIngest)
MaxActors == 1      \* actors in one list of a structured result
MaxBatch == 2       \* articles in the batch given to extract_actors (SpecExtract)

----------------------------------------------------------------------------
(* Configuration *)

RSS_FEEDS ==
    << [rss_id |-> "Business",   feed_url |-> "http://feeds.bbci.co.uk/news/business/rss.xml"],
       [rss_id |-> "Health",     feed_url |-> "http://feeds.bbci.co.uk/news/health/rss.xml"],
       [rss_id |-> "Politics",   feed_url |-> "http://feeds.bbci.co.uk/news/politics/rss.xml"],
       [rss_id |-> "Science",    feed_url |-> "http://feeds.bbci.co.uk/news/science_and_environment/rss.xml"],
       [rss_id |-> "Technology", feed_url |-> "http://feeds.bbci.co.uk/news/technology/rss.xml"] >>

Feeds == 1..NumFeeds

RAW_NEWS_PATH == "/tmp/bbc_news/raw/news"
CURATED_NEWS_PATH == "/tmp/bbc_news/curated/news"
CURATED_ACTORS_PATH == "/tmp/bbc_news/curated/actors"
\* main.py: RAW_STORAGE_PATH + "curated_news" and CURATED_STORAGE_PATH + "actors"
SCRIPT_NEWS_PATH == "/tmp/bbc_news/raw/curated_news"
SCRIPT_ACTORS_PATH == "/tmp/bbc_news/curated/actors"

Paths == {RAW_NEWS_PATH, CURATED_NEWS_PATH, CURATED_ACTORS_PATH, SCRIPT_NEWS_PATH}

----------------------------------------------------------------------------
(* Sequences *)

SeqsUpTo(S, n) == UNION {[1..k -> S] : k \in 0..n}

Range(s) == {s[k] : k \in 1..Len(s)}

NoDuplicates(s) == \A a, b \in 1..Len(s) : s[a] = s[b] => a = b

RECURSIVE Concat(_)
Concat(ss) == IF ss = <<>> THEN <<>> ELSE Head(ss) \o Concat(Tail(ss))

----------------------------------------------------------------------------
(* Feed entries, as feedparser exposes them *)

GuidNames == <<"a", "b", "c", "d">>
Guids == {GuidNames[k] : k \in 1..NumGuids}

None == "None"

\* A sequence of ids up to renaming: each is one met before in the sequence or the
\* first guid not yet used (ids are only compared and copied).
FirstUse(ids) ==
    \A k \in 1..Len(ids) :
        LET seen == {ids[m] : m \in 1..(k - 1)}
        IN ids[k] \in seen \/ ids[k] = GuidNames[Cardinality(seen) + 1]

\* published_parsed: a time.struct_time, of which the first six fields are read;
\* <<>> stands for a value that is not a struct_time (None).
GoodTime == <<2024, 2, 29, 12, 30, 15>>
BadTime == <<2024, 2, 30, 12, 30, 15>>
NoTime == <<>>

\* media_thumbnail: absent, an empty list, or a list of {'url': ...}
ThumbAbsent == [has |-> FALSE, list |-> <<>>]
ThumbEmpty == [has |-> TRUE, list |-> <<>>]
ThumbUrl == [has |-> TRUE, list |-> <<[url |-> "http://img/1.jpg"]>>]

EntryOf(g, ts, th) ==
    [guid |-> g, title |-> "title " \o g, description |-> "description " \o g,
     link |-> "http://news/" \o g, published_parsed |-> ts, media_thumbnail |-> th]

\* Entries of well-formed feed documents
PlainEntries == {EntryOf(g, GoodTime, ThumbUrl) : g \in Guids}

\* Entries of any shape
AllEntries == {EntryOf(g, ts, th) : g \in Guids, ts \in {GoodTime, BadTime, NoTime},
                                    th \in {ThumbAbsent, ThumbEmpty, ThumbUrl}}

----------------------------------------------------------------------------
(* State file *)

AbsentFile == [kind |-> "absent", ids |-> <<>>]
MalformedFile == [kind |-> "malformed", ids |-> <<>>]
StateOf(ids) == [kind |-> "json", ids |-> ids]

\* The state files a run can find: none, an unreadable one, or a list of ids without
\* duplicates.
InitialStateFiles ==
    {AbsentFile, MalformedFile}
        \cup {StateOf(s) : s \in {q \in SeqsUpTo(Guids, NumGuids) : NoDuplicates(q)}}

load_state(file) == IF file.kind = "json" THEN file.ids ELSE <<>>

\* io: "ok"; "open" (open() raises IOError, the file is untouched); "write" (the
\* write raises IOError after open() truncated the file). The IOError is logged
\* and swallowed.
SaveOutcomes == {"ok", "open", "write"}

save_state(file, state, io) ==
    CASE io = "ok" -> StateOf(state)
      [] io = "open" -> file
      [] OTHER -> MalformedFile

----------------------------------------------------------------------------
(* time_to_ts: the datetime of the first six fields, as a timestamp('us') *)

IsLeap(y) == (y % 4 = 0 /\ y % 100 # 0) \/ y % 400 = 0

DaysInMonth(y, m) ==
    CASE m \in {4, 6, 9, 11} -> 30
      [] m = 2 -> IF IsLeap(y) THEN 29 ELSE 28
      [] OTHER -> 31

\* days from 0001-01-01 to the first day of year y
DaysBeforeYear(y) == (y - 1) * 365 + (y - 1) \div 4 - (y - 1) \div 100 + (y - 1) \div 400

RECURSIVE DaysBeforeMonth(_, _)
DaysBeforeMonth(y, m) == IF m = 1 THEN 0 ELSE DaysBeforeMonth(y, m - 1) + DaysInMonth(y, m - 1)

\* what datetime() accepts
ValidDateTime(ts) ==
    /\ ts[1] \in 1..9999
    /\ ts[2] \in 1..12
    /\ ts[3] \in 1..DaysInMonth(ts[1], ts[2])
    /\ ts[4] \in 0..23
    /\ ts[5] \in 0..59
    /\ ts[6] \in 0..59

\* The timestamp is kept as whole seconds since 1970-01-01 plus microseconds (a
\* struct_time carries none): the microsecond count itself exceeds 32 bits.
time_to_ts(time_struct) ==
    IF Len(time_struct) < 6 THEN [raised |-> "TypeError", seconds |-> 0, microseconds |-> 0]
    ELSE IF ~ValidDateTime(time_struct)
         THEN [raised |-> "ValueError", seconds |-> 0, microseconds |-> 0]
    ELSE LET days == DaysBeforeYear(time_struct[1]) + DaysBeforeMonth(time_struct[1], time_struct[2])
                       + (time_struct[3] - 1) - DaysBeforeYear(1970)
         IN [raised |-> "none",
             seconds |-> days * 86400 + time_struct[4] * 3600 + time_struct[5] * 60 + time_struct[6],
             microseconds |-> 0]

----------------------------------------------------------------------------
(* download_entries *)

\* feedparser.parse: "ok" serves the document; "bozo" is a feed that is unreachable
\* or whose document is malformed, reported as a result without entries; "raise" is
\* a transport error that feedparser lets through.
FetchOutcomes == {"ok", "bozo", "raise"}

parse(entries, fetch) == IF fetch = "ok" THEN entries ELSE <<>>

unprocessed_entries(entries, processed_ids) ==
    SelectSeq(entries, LAMBDA row : row.guid \notin Range(processed_ids))

\* row.get('media_thumbnail', [{'url': None}])[0]['url']
thumbnail(row) ==
    LET l == IF row.media_thumbnail.has THEN row.media_thumbnail.list ELSE <<[url |-> None]>>
    IN IF l = <<>> THEN [raised |-> "IndexError", url |-> None]
       ELSE [raised |-> "none", url |-> l[1].url]

\* The exception building the tuple of one entry raises, "none" when it builds.
RowError(row) ==
    IF time_to_ts(row.published_parsed).raised # "none" THEN time_to_ts(row.published_parsed).raised
    ELSE thumbnail(row).raised

\* Mutant of FirstError: only the first entry is looked at.
FirstErrorHeadOnly(rows) == IF rows = <<>> THEN "none" ELSE RowError(Head(rows))

\* The list comprehension stops at the first entry that raises.
RECURSIVE FirstError(_)
FirstError(rows) ==
    IF rows = <<>> THEN "none"
    ELSE IF RowError(Head(rows)) # "none" THEN RowError(Head(rows))
    ELSE FirstError(Tail(rows))

RawRecord(row, rss_id) ==
    [title |-> row.title,
     published_time |-> [seconds |-> time_to_ts(row.published_parsed).seconds,
                         microseconds |-> time_to_ts(row.published_parsed).microseconds],
     description |-> row.description,
     link |-> row.link,
     id |-> row.guid,
     thumbnail_url |-> thumbnail(row).url,
     category |-> rss_id]

make_table(rows, rss_id) == [k \in 1..Len(rows) |-> RawRecord(rows[k], rss_id)]

Column(table, name) == [k \in 1..Len(table) |-> table[k][name]]

\* The state written after a batch was built
new_state(processed_ids, table) == processed_ids \o Column(table, "id")

\* Mutant of download_entries: a state file that is missing or does not decode ends
\* the call.
download_entries_strict(rss_id, entries, file, fetch, io) ==
    IF fetch = "raise"
    THEN [rss_id |-> rss_id, fetch |-> fetch, raised |-> "URLError", table |-> <<>>, file |-> file]
    ELSE IF file.kind # "json"
    THEN [rss_id |-> rss_id, fetch |-> fetch,
          raised |-> IF file.kind = "absent" THEN "FileNotFoundError" ELSE "JSONDecodeError",
          table |-> <<>>, file |-> file]
    ELSE LET processed_ids == load_state(file)
             unprocessed == unprocessed_entries(parse(entries, fetch), processed_ids)
         IN IF unprocessed = <<>>
            THEN [rss_id |-> rss_id, fetch |-> fetch, raised |-> "EOFError", table |-> <<>>,
                  file |-> file]
            ELSE IF FirstError(unprocessed) # "none"
            THEN [rss_id |-> rss_id, fetch |-> fetch, raised |-> FirstError(unprocessed),
                  table |-> <<>>, file |-> file]
            ELSE LET table == make_table(unprocessed, rss_id)
                 IN [rss_id |-> rss_id, fetch |-> fetch, raised |-> "none", table |-> table,
                     file |-> save_state(file, new_state(processed_ids, table), io)]

\* The whole call: the value returned or the exception raised, and the state file
\* it leaves.
download_entries(rss_id, entries, file, fetch, io) ==
    IF fetch = "raise"
    THEN [rss_id |-> rss_id, fetch |-> fetch, raised |-> "URLError", table |-> <<>>, file |-> file]
    ELSE LET processed_ids == load_state(file)
             unprocessed == unprocessed_entries(parse(entries, fetch), processed_ids)
         IN IF unprocessed = <<>>
            THEN [rss_id |-> rss_id, fetch |-> fetch, raised |-> "EOFError", table |-> <<>>,
                  file |-> file]
            ELSE IF FirstError(unprocessed) # "none"
            THEN [rss_id |-> rss_id, fetch |-> fetch, raised |-> FirstError(unprocessed),
                  table |-> <<>>, file |-> file]
            ELSE LET table == make_table(unprocessed, rss_id)
                 IN [rss_id |-> rss_id, fetch |-> fetch, raised |-> "none", table |-> table,
                     file |-> save_state(file, new_state(processed_ids, table), io)]

NoCall == [rss_id |-> "", fetch |-> "ok", raised |-> "none", table |-> <<>>, file |-> AbsentFile]

\* The steps of one download_entries invocation that touch the state file, for
\* invocations that run side by side: the load (with everything the invocation
\* computes from what it loaded) and the save.
Invocations == {1, 2}

Idle == [pc |-> "start", fetch |-> "ok", io |-> "ok", processed_ids |-> <<>>, raised |-> "none",
         table |-> <<>>]

NoWorkers == [w \in Invocations |-> Idle]

\* feedparser.parse, load_state, the filter, the rows and the table
load_step(rss_id, entries, file, fetch) ==
    IF fetch = "raise"
    THEN [pc |-> "raised", fetch |-> fetch, io |-> "ok", processed_ids |-> <<>>,
          raised |-> "URLError", table |-> <<>>]
    ELSE LET processed_ids == load_state(file)
             unprocessed == unprocessed_entries(parse(entries, fetch), processed_ids)
         IN IF unprocessed = <<>>
            THEN [pc |-> "raised", fetch |-> fetch, io |-> "ok", processed_ids |-> processed_ids,
                  raised |-> "EOFError", table |-> <<>>]
            ELSE IF FirstError(unprocessed) # "none"
            THEN [pc |-> "raised", fetch |-> fetch, io |-> "ok", processed_ids |-> processed_ids,
                  raised |-> FirstError(unprocessed), table |-> <<>>]
            ELSE [pc |-> "loaded", fetch |-> fetch, io |-> "ok", processed_ids |-> processed_ids,
                  raised |-> "none", table |-> make_table(unprocessed, rss_id)]

\* save_state(processed_ids + new_ids) on the file as it is now
save_step(worker, file, io) == save_state(file, new_state(worker.processed_ids, worker.table), io)

----------------------------------------------------------------------------
(* curate_news *)

\* Mutant of CuratedColumns: the thumbnail is not projected.
CuratedColumnsNoThumbnail ==
    <<"title", "published_time", "description", "link", "id", "category">>

CuratedColumns ==
    <<"title", "published_time", "description", "link", "id", "thumbnail_url", "category">>

Project(row, columns) == [c \in Range(columns) |-> row[c]]

curate_news(table) == [k \in 1..Len(table) |-> Project(table[k], CuratedColumns)]

----------------------------------------------------------------------------
(* NewsProcessor.analyze_text *)

ActorPool == {[name |-> "Acme Corp", role |-> "acquirer"],
              [name |-> "Jane Doe", role |-> "minister"]}

ActorLists == SeqsUpTo(ActorPool, MaxActors)

CategoryEnum ==
    {"Political Turmoil", "New Product Announced", "Leadership Change", "Housing Issues", "Others"}

NoArguments == [main_actors |-> <<>>, other_actors |-> <<>>, category |-> "", complete |-> FALSE]

\* What the chat completion call does: it raises (API error, timeout), answers
\* without a tool call, answers with arguments that are not JSON, or answers with
\* JSON arguments (complete or with a required field missing).
ApiError == [kind |-> "api_error", arguments |-> NoArguments]
NoToolCalls == [kind |-> "no_tool_calls", arguments |-> NoArguments]
BadJson == [kind |-> "bad_json", arguments |-> NoArguments]
Incomplete == [kind |-> "arguments", arguments |-> NoArguments]
Structured(main, other, cat) ==
    [kind |-> "arguments",
     arguments |-> [main_actors |-> main, other_actors |-> other, category |-> cat, complete |-> TRUE]]

FailedResponses == {ApiError, NoToolCalls, BadJson, Incomplete}

Responses ==
    FailedResponses \cup {Structured(m, o, "Others") : m \in ActorLists, o \in ActorLists}

\* The answers drawn in the pipeline runs
PipelineResponses ==
    {ApiError, Structured(<<[name |-> "Acme Corp", role |-> "acquirer"]>>,
                          <<[name |-> "Jane Doe", role |-> "minister"]>>, "Others")}

\* EventResponse(**arguments): the three fields are required; category is declared
\* str, and the enum given to Field() is schema metadata that is not validated.
EventResponseValid(arguments) == arguments.complete

NoResult == [kind |-> "None", main_actors |-> <<>>, other_actors |-> <<>>, category |-> ""]

analyze_text(response) ==
    CASE response.kind = "api_error" ->
            [kind |-> "raise", main_actors |-> <<>>, other_actors |-> <<>>, category |-> ""]
      [] response.kind = "no_tool_calls" -> NoResult
      [] response.kind = "bad_json" -> NoResult
      [] OTHER ->
            IF EventResponseValid(response.arguments)
            THEN [kind |-> "EventResponse",
                  main_actors |-> response.arguments.main_actors,
                  other_actors |-> response.arguments.other_actors,
                  category |-> response.arguments.category]
            ELSE NoResult

----------------------------------------------------------------------------
(* extract_actors *)

NoLists == [news_ids |-> <<>>, actor_names |-> <<>>, actor_roles |-> <<>>, is_main_actor |-> <<>>]

\* for actor in actors: the four appends
RECURSIVE append_actors(_, _, _, _)
append_actors(lists, news_id, actors, main) ==
    IF actors = <<>> THEN lists
    ELSE append_actors(
            [news_ids |-> Append(lists.news_ids, news_id),
             actor_names |-> Append(lists.actor_names, Head(actors).name),
             actor_roles |-> Append(lists.actor_roles, Head(actors).role),
             is_main_actor |-> Append(lists.is_main_actor, main)],
            news_id, Tail(actors), main)

\* Mutant of extract_article: the other actors are appended before the main ones.
extract_article_others_first(lists, news_id, response) ==
    LET result == analyze_text(response)
    IN IF result.kind = "EventResponse"
       THEN append_actors(append_actors(lists, news_id, result.other_actors, FALSE),
                          news_id, result.main_actors, TRUE)
       ELSE lists

\* One iteration of the loop over the articles: a result of None and an exception
\* both go on to the next article.
extract_article(lists, news_id, response) ==
    LET result == analyze_text(response)
    IN IF result.kind = "EventResponse"
       THEN append_actors(append_actors(lists, news_id, result.main_actors, TRUE),
                          news_id, result.other_actors, FALSE)
       ELSE lists

RECURSIVE extract_loop(_, _, _)
extract_loop(lists, table, resps) ==
    IF table = <<>> THEN lists
    ELSE extract_loop(extract_article(lists, Head(table).id, Head(resps)), Tail(table), Tail(resps))

\* pa.table of the four lists
actors_rows(lists) ==
    [k \in 1..Len(lists.news_ids) |->
        [news_id |-> lists.news_ids[k], actor_name |-> lists.actor_names[k],
         actor_role |-> lists.actor_roles[k], is_main_actor |-> lists.is_main_actor[k]]]

\* Mutant of extract_actors: an exception of analyze_text is not caught in the loop
\* and leaves extract_actors through its outer handler.
extract_actors_unguarded(table, resps) ==
    IF \E k \in 1..Len(resps) : analyze_text(resps[k]).kind = "raise"
    THEN [raised |-> "APIError", table |-> <<>>]
    ELSE [raised |-> "none", table |-> actors_rows(extract_loop(NoLists, table, resps))]

extract_actors(table, resps) ==
    [raised |-> "none", table |-> actors_rows(extract_loop(NoLists, table, resps))]

NoExtract == [raised |-> "none", table |-> <<>>]

----------------------------------------------------------------------------
(* store: write_deltalake(storage_path, data, mode='append') *)

store(tbls, data, storage_path) == [tbls EXCEPT ![storage_path] = @ \o data]

NewsPath == IF variant = "collector" THEN CURATED_NEWS_PATH ELSE SCRIPT_NEWS_PATH
ActorsPath == IF variant = "collector" THEN CURATED_ACTORS_PATH ELSE SCRIPT_ACTORS_PATH

\* Mutant of FirstStore: the loop body starts at the curated append, the batch is
\* never appended to raw-news.
FirstStoreCurated == "curated"

\* The first step of the loop body over the sources
FirstStore == IF variant = "collector" THEN "raw" ELSE "curated"

NoFailure == [run |-> 0, rows |-> <<>>]

EmptyTables == [p \in Paths |-> <<>>]

----------------------------------------------------------------------------
(* Spec: runs of the pipeline *)

Init ==
    /\ variant \in {"collector", "script"}
    /\ feed \in [Feeds -> SeqsUpTo(PlainEntries, MaxEntries)]
    /\ stateFile \in InitialStateFiles
    /\ tables = EmptyTables
    /\ pc = "idle"
    /\ i = 1
    /\ table_sources = <<>>
    /\ j = 1
    /\ t = NoCall
    /\ err = "none"
    /\ runs = 0
    /\ curated_table = <<>>
    /\ responses = <<>>
    /\ actors_table = NoExtract
    /\ initial_ids = Range(load_state(stateFile))
    /\ failed_batch = NoFailure
    /\ no_pending = {}
    /\ fetch_failed = {}
    /\ prev_t = NoCall
    /\ prev_state = AbsentFile
    /\ analysis = NoResult
    /\ workers = NoWorkers

\* A new invocation of the program
StartRun ==
    /\ pc \in {"idle", "done", "failed"}
    /\ runs < MaxRuns
    /\ runs' = runs + 1
    /\ pc' = "sources"
    /\ i' = 1
    /\ j' = 1
    /\ table_sources' = <<>>
    /\ t' = NoCall
    /\ err' = "none"
    /\ curated_table' = <<>>
    /\ responses' = <<>>
    /\ actors_table' = NoExtract
    /\ no_pending' = {}
    /\ fetch_failed' = {}
    /\ UNCHANGED <<variant, feed, stateFile, tables, initial_ids, failed_batch, prev_t, prev_state, analysis, workers>>

\* One iteration of the loop of create_press_releases_sources: download_entries for
\* the i-th feed. An exception leaves the loop, create_press_releases_sources and
\* the run (each handler logs and raises again).
DownloadEntries ==
    /\ pc = "sources"
    /\ i <= NumFeeds
    /\ \E fetch \in FetchOutcomes, io \in SaveOutcomes :
          LET r == download_entries(RSS_FEEDS[i].rss_id, feed[i], stateFile, fetch, io)
          IN /\ t' = r
             /\ stateFile' = r.file
             /\ no_pending' = IF r.raised = "EOFError" /\ fetch = "ok"
                              THEN no_pending \cup {i} ELSE no_pending
             /\ fetch_failed' = IF fetch # "ok" THEN fetch_failed \cup {i} ELSE fetch_failed
             /\ IF r.raised = "none"
                THEN /\ table_sources' = Append(table_sources, r.table)
                     /\ i' = i + 1
                     /\ pc' = IF i = NumFeeds THEN FirstStore ELSE "sources"
                     /\ err' = err
                ELSE /\ pc' = "failed"
                     /\ err' = r.raised
                     /\ UNCHANGED <<table_sources, i>>
    /\ UNCHANGED <<variant, feed, tables, j, runs, curated_table, responses, actors_table,
                   initial_ids, failed_batch, prev_t, prev_state, analysis, workers>>

\* Mutant of StoreStep: a failed append is logged and the run goes on.
StoreStepSwallowed(data, storage_path, next, nextj) ==
    \E written \in BOOLEAN :
        IF written
        THEN /\ tables' = store(tables, data, storage_path)
             /\ pc' = next
             /\ j' = nextj
             /\ UNCHANGED <<err, failed_batch>>
        ELSE /\ pc' = next
             /\ j' = nextj
             /\ err' = "StoreError"
             /\ failed_batch' = [run |-> runs, rows |-> table_sources[j]]
             /\ UNCHANGED tables

\* The append of `data` to `storage_path` succeeds and the run goes on at `next`,
\* or it raises and the run ends.
StoreStep(data, storage_path, next, nextj) ==
    \E written \in BOOLEAN :
        IF written
        THEN /\ tables' = store(tables, data, storage_path)
             /\ pc' = next
             /\ j' = nextj
             /\ UNCHANGED <<err, failed_batch>>
        ELSE /\ pc' = "failed"
             /\ err' = "StoreError"
             /\ failed_batch' = [run |-> runs, rows |-> table_sources[j]]
             /\ UNCHANGED <<tables, j>>

\* process_feeds: self.store(input_table, RAW_NEWS_PATH)
StoreRaw ==
    /\ pc = "raw"
    /\ StoreStep(table_sources[j], RAW_NEWS_PATH, "curated", j)
    /\ UNCHANGED <<variant, feed, stateFile, i, table_sources, t, runs, curated_table,
                   responses, actors_table, initial_ids, no_pending, fetch_failed,
                   prev_t, prev_state, analysis, workers>>

\* curated_table = curate_news(source).to_table(); store(curated_table, ...)
StoreCurated ==
    /\ pc = "curated"
    /\ curated_table' = curate_news(table_sources[j])
    /\ StoreStep(curate_news(table_sources[j]), NewsPath, "extract", j)
    /\ UNCHANGED <<variant, feed, stateFile, i, table_sources, t, runs,
                   responses, actors_table, initial_ids, no_pending, fetch_failed,
                   prev_t, prev_state, analysis, workers>>

\* actors_table = extract_actors(curated_table), the capability answering each
\* article with one of `answers`
Extract(answers) ==
    /\ pc = "extract"
    /\ \E rs \in [1..Len(curated_table) -> answers] :
          /\ responses' = rs
          /\ actors_table' = extract_actors(curated_table, rs)
    /\ pc' = "actors"
    /\ UNCHANGED <<variant, feed, stateFile, tables, i, table_sources, j, t, err, runs,
                   curated_table, initial_ids, failed_batch, no_pending, fetch_failed,
                   prev_t, prev_state, analysis, workers>>

ExtractActors == Extract(PipelineResponses)

\* store(actors_table, ...), the end of the loop body
StoreActors ==
    /\ pc = "actors"
    /\ StoreStep(actors_table.table, ActorsPath,
                 IF j = Len(table_sources) THEN "done" ELSE FirstStore, j + 1)
    /\ UNCHANGED <<variant, feed, stateFile, i, table_sources, t, runs, curated_table,
                   responses, actors_table, initial_ids, no_pending, fetch_failed,
                   prev_t, prev_state, analysis, workers>>

Next ==
    \/ StartRun
    \/ DownloadEntries
    \/ StoreRaw
    \/ StoreCurated
    \/ ExtractActors
    \/ StoreActors

Spec == Init /\ [][Next]_vars

----------------------------------------------------------------------------
(* SpecIngest: download_entries called again and again on one feed, from any    *)
(* state file and any feed document                                             *)

InitIngest ==
    /\ variant = "collector"
    /\ i \in Feeds
    /\ \E entries \in SeqsUpTo(AllEntries, MaxEntries) :
          feed = [k \in Feeds |-> IF k = i THEN entries ELSE <<>>]
    /\ stateFile \in InitialStateFiles
    /\ tables = EmptyTables
    /\ pc = "ingest"
    /\ table_sources = <<>>
    /\ j = 1
    /\ t = NoCall
    /\ err = "none"
    /\ runs = 0
    /\ curated_table = <<>>
    /\ responses = <<>>
    /\ actors_table = NoExtract
    /\ initial_ids = Range(load_state(stateFile))
    /\ failed_batch = NoFailure
    /\ no_pending = {}
    /\ fetch_failed = {}
    /\ prev_t = NoCall
    /\ prev_state = AbsentFile
    /\ analysis = NoResult
    /\ workers = NoWorkers

Ingest ==
    /\ pc = "ingest"
    /\ runs < MaxRuns
    /\ \E fetch \in FetchOutcomes, io \in SaveOutcomes :
          LET r == download_entries(RSS_FEEDS[i].rss_id, feed[i], stateFile, fetch, io)
          IN /\ t' = r
             /\ stateFile' = r.file
             /\ err' = r.raised
    /\ prev_t' = t
    /\ prev_state' = stateFile
    /\ runs' = runs + 1
    /\ UNCHANGED <<variant, feed, tables, pc, i, table_sources, j, curated_table, responses,
                   actors_table, initial_ids, failed_batch, no_pending, fetch_failed,
                   analysis, workers>>

NextIngest == Ingest

SpecIngest == InitIngest /\ [][NextIngest]_vars

----------------------------------------------------------------------------
(* SpecCall: one call of download_entries, from any state file and any feed       *)
(* document (guids up to renaming)                                              *)

InitCall ==
    /\ variant = "collector"
    /\ i = 1
    /\ \E entries \in SeqsUpTo(AllEntries, MaxEntries) :
          /\ FirstUse([k \in 1..Len(entries) |-> entries[k].guid])
          /\ feed = [k \in Feeds |-> IF k = i THEN entries ELSE <<>>]
    /\ stateFile \in InitialStateFiles
    /\ tables = EmptyTables
    /\ pc = "call"
    /\ table_sources = <<>>
    /\ j = 1
    /\ t = NoCall
    /\ err = "none"
    /\ runs = 0
    /\ curated_table = <<>>
    /\ responses = <<>>
    /\ actors_table = NoExtract
    /\ initial_ids = Range(load_state(stateFile))
    /\ failed_batch = NoFailure
    /\ no_pending = {}
    /\ fetch_failed = {}
    /\ prev_t = NoCall
    /\ prev_state = AbsentFile
    /\ analysis = NoResult
    /\ workers = NoWorkers

DownloadOnce ==
    /\ pc = "call"
    /\ \E fetch \in FetchOutcomes, io \in SaveOutcomes :
          LET r == download_entries(RSS_FEEDS[i].rss_id, feed[i], stateFile, fetch, io)
          IN /\ t' = r
             /\ stateFile' = r.file
             /\ err' = r.raised
    /\ pc' = "returned"
    /\ prev_state' = stateFile
    /\ runs' = runs + 1
    /\ UNCHANGED <<variant, feed, tables, i, table_sources, j, curated_table, responses,
                   actors_table, initial_ids, failed_batch, no_pending, fetch_failed, prev_t,
                   analysis, workers>>

NextCall == DownloadOnce

SpecCall == InitCall /\ [][NextCall]_vars

----------------------------------------------------------------------------
(* SpecCurate: the curation and the curated append of one batch that              *)
(* download_entries returned                                                    *)

\* Entries download_entries makes records of
SoundEntries == {EntryOf(g, GoodTime, th) : g \in Guids, th \in {ThumbAbsent, ThumbUrl}}

InitCurate ==
    /\ variant \in {"collector", "script"}
    /\ i \in Feeds
    /\ feed = [k \in Feeds |-> <<>>]
    /\ stateFile = AbsentFile
    /\ tables = EmptyTables
    /\ pc = "curated"
    /\ \E entries \in SeqsUpTo(SoundEntries, MaxEntries) :
          /\ entries # <<>>
          /\ table_sources = <<make_table(entries, RSS_FEEDS[i].rss_id)>>
    /\ j = 1
    /\ t = NoCall
    /\ err = "none"
    /\ runs = 1
    /\ curated_table = <<>>
    /\ responses = <<>>
    /\ actors_table = NoExtract
    /\ initial_ids = {}
    /\ failed_batch = NoFailure
    /\ no_pending = {}
    /\ fetch_failed = {}
    /\ prev_t = NoCall
    /\ prev_state = AbsentFile
    /\ analysis = NoResult
    /\ workers = NoWorkers

NextCurate == StoreCurated

SpecCurate == InitCurate /\ [][NextCurate]_vars

----------------------------------------------------------------------------
(* SpecAnalyze: one call of NewsProcessor.analyze_text                           *)

\* A category the model answers with that EventResponse does not list
UnlistedCategory == "Sports"

\* The answers of the chat completion: the failures, and arguments with every
\* actor list and every category
AnalyzeResponses ==
    FailedResponses \cup
        {Structured(m, o, c) : m \in ActorLists, o \in ActorLists,
                               c \in CategoryEnum \cup {UnlistedCategory}}

InitAnalyze ==
    /\ variant = "collector"
    /\ feed = [k \in Feeds |-> <<>>]
    /\ stateFile = AbsentFile
    /\ tables = EmptyTables
    /\ pc = "analyze"
    /\ i = 1
    /\ table_sources = <<>>
    /\ j = 1
    /\ t = NoCall
    /\ err = "none"
    /\ runs = 1
    /\ curated_table = <<>>
    /\ \E response \in AnalyzeResponses : responses = <<response>>
    /\ actors_table = NoExtract
    /\ initial_ids = {}
    /\ failed_batch = NoFailure
    /\ no_pending = {}
    /\ fetch_failed = {}
    /\ prev_t = NoCall
    /\ prev_state = AbsentFile
    /\ analysis = NoResult
    /\ workers = NoWorkers

AnalyzeText ==
    /\ pc = "analyze"
    /\ LET result == analyze_text(responses[1])
       IN /\ analysis' = result
          /\ err' = IF result.kind = "raise" THEN "APIError" ELSE "none"
    /\ pc' = "analyzed"
    /\ UNCHANGED <<variant, feed, stateFile, tables, i, table_sources, j, t, runs, curated_table,
                   responses, actors_table, initial_ids, failed_batch, no_pending, fetch_failed,
                   prev_t, prev_state, workers>>

NextAnalyze == AnalyzeText

SpecAnalyze == InitAnalyze /\ [][NextAnalyze]_vars

----------------------------------------------------------------------------
(* SpecConcurrent: two download_entries invocations, for the first two feeds,   *)
(* sharing the state file; nothing in the code serialises them                  *)

InitConcurrent ==
    /\ variant = "collector"
    /\ feed \in [Feeds -> SeqsUpTo(PlainEntries, MaxEntries)]
    /\ stateFile \in InitialStateFiles
    /\ tables = EmptyTables
    /\ pc = "concurrent"
    /\ i = 1
    /\ table_sources = <<>>
    /\ j = 1
    /\ t = NoCall
    /\ err = "none"
    /\ runs = 1
    /\ curated_table = <<>>
    /\ responses = <<>>
    /\ actors_table = NoExtract
    /\ initial_ids = Range(load_state(stateFile))
    /\ failed_batch = NoFailure
    /\ no_pending = {}
    /\ fetch_failed = {}
    /\ prev_t = NoCall
    /\ prev_state = stateFile
    /\ analysis = NoResult
    /\ workers = NoWorkers

\* Lines 86-111 of invocation w
LoadState(w) ==
    /\ pc = "concurrent"
    /\ workers[w].pc = "start"
    /\ \E fetch \in FetchOutcomes :
          workers' = [workers EXCEPT ![w] = load_step(RSS_FEEDS[w].rss_id, feed[w], stateFile, fetch)]
    /\ UNCHANGED <<variant, feed, stateFile, tables, pc, i, table_sources, j, t, err, runs,
                   curated_table, responses, actors_table, initial_ids, failed_batch,
                   no_pending, fetch_failed, prev_t, prev_state, analysis>>

\* Lines 114-117 of invocation w
SaveState(w) ==
    /\ pc = "concurrent"
    /\ workers[w].pc = "loaded"
    /\ \E io \in SaveOutcomes :
          /\ stateFile' = save_step(workers[w], stateFile, io)
          /\ workers' = [workers EXCEPT ![w].pc = "returned", ![w].io = io]
    /\ UNCHANGED <<variant, feed, tables, pc, i, table_sources, j, t, err, runs,
                   curated_table, responses, actors_table, initial_ids, failed_batch,
                   no_pending, fetch_failed, prev_t, prev_state, analysis>>

NextConcurrent == \E w \in Invocations : LoadState(w) \/ SaveState(w)

SpecConcurrent == InitConcurrent /\ [][NextConcurrent]_vars

----------------------------------------------------------------------------
(* SpecExtract: extract_actors on any curated batch, with any answers of the      *)
(* enrichment capability                                                        *)

InitExtract ==
    /\ variant = "collector"
    /\ i = 1
    /\ feed = [k \in Feeds |-> <<>>]
    /\ stateFile = AbsentFile
    /\ tables = EmptyTables
    /\ pc = "extract"
    /\ table_sources = <<>>
    /\ j = 1
    /\ t = NoCall
    /\ err = "none"
    /\ runs = 0
    /\ \E entries \in SeqsUpTo(PlainEntries, MaxBatch) :
          /\ FirstUse([k \in 1..Len(entries) |-> entries[k].guid])
          /\ curated_table = curate_news(make_table(entries, RSS_FEEDS[i].rss_id))
    /\ responses = <<>>
    /\ actors_table = NoExtract
    /\ initial_ids = {}
    /\ failed_batch = NoFailure
    /\ no_pending = {}
    /\ fetch_failed = {}
    /\ prev_t = NoCall
    /\ prev_state = AbsentFile
    /\ analysis = NoResult
    /\ workers = NoWorkers

ExtractBatch == Extract(Responses)

NextExtract == ExtractBatch

SpecExtract == InitExtract /\ [][NextExtract]_vars

----------------------------------------------------------------------------
(* Properties *)

Ids(table) == Range(Column(table, "id"))

RunOver == pc \in {"done", "failed"}

\* C1: the raw-news table never holds two records with the same id.
RawIdsUnique == NoDuplicates(Column(tables[RAW_NEWS_PATH], "id"))

\* C2: when a call of download_entries succeeded and the next call finds the same
\* feed document and the state file the first call left, the next call raises
\* EOFError, returns no record and leaves the state file as it found it.
IngestIdempotent ==
    (runs >= 2 /\ prev_t.raised = "none" /\ t.fetch = "ok")
        => (t.raised = "EOFError" /\ t.table = <<>> /\ stateFile = prev_state)

\* C3: after a call of download_entries that saved the state, the persisted list of
\* ids holds no id twice (the state file before the first call holds none twice).
SavedStateUnique ==
    (runs >= 1 /\ t.raised = "none") => NoDuplicates(load_state(stateFile))

StoredIds == Ids(tables[RAW_NEWS_PATH]) \cup Ids(tables[CURATED_NEWS_PATH])
                \cup Ids(tables[SCRIPT_NEWS_PATH])

\* C4: every id the runs added to the persisted list belongs to a record already
\* appended to a news table.
StoreThenMark == (Range(load_state(stateFile)) \ initial_ids) \subseteq StoredIds

NextDownloadOfFailedFeed ==
    /\ failed_batch.run > 0
    /\ failed_batch.run = runs - 1
    /\ t.rss_id = failed_batch.rows[1].category
    /\ t.fetch = "ok"

\* C5: a failed append ends the run with the exception, and in the next run the
\* download of that feed (the document unchanged and fetched) returns the entries
\* of the batch whose append failed.
StorageFaultRetried ==
    /\ (failed_batch.run > 0 /\ failed_batch.run = runs) => (pc = "failed" /\ err = "StoreError")
    /\ NextDownloadOfFailedFeed
          => (t.raised = "none" /\ Ids(failed_batch.rows) \subseteq Ids(t.table))

\* The feeds whose download was attempted in the run, and those whose batch went
\* through every append of the loop body.
Attempted == IF i > NumFeeds THEN Feeds ELSE 1..i

Ingested(g) == g \in Attempted /\ (g <= Len(table_sources) => g < j)

\* C6: at the end of a run in which a feed had no pending entries, every other feed
\* was downloaded and its batch, if any, curated, extracted and appended.
NoPendingSkipped ==
    (RunOver /\ no_pending # {}) => \A g \in Feeds \ no_pending : Ingested(g)

\* C7: at the end of a run in which the fetch of a feed failed, every other feed
\* was downloaded and its batch, if any, curated, extracted and appended.
FetchFailureIsolated ==
    (RunOver /\ fetch_failed # {}) => \A g \in Feeds \ fetch_failed : Ingested(g)

\* The articles of the batch for which analyze_text gave no structured result
FailedArticles ==
    {k \in 1..Len(responses) : analyze_text(responses[k]).kind # "EventResponse"}

Keep(seq, drop) == [k \in 1..Len(seq) |-> IF k \in drop THEN <<>> ELSE <<seq[k]>>]

Without(seq, drop) == Concat(Keep(seq, drop))

\* C8: extract_actors does not raise; the articles whose analysis fails contribute
\* no row, and the rows returned are those of the batch without these articles.
FailureIsolation ==
    (pc = "actors") =>
        /\ actors_table.raised = "none"
        /\ \A k \in FailedArticles :
              (\A m \in 1..Len(curated_table) :
                    curated_table[m].id = curated_table[k].id => m \in FailedArticles)
                 => \A r \in Range(actors_table.table) : r.news_id # curated_table[k].id
        /\ actors_table.table
              = extract_actors(Without(curated_table, FailedArticles),
                               Without(responses, FailedArticles)).table

\* A failed article is followed by an article that gave rows.
FailureIsolationWitness ==
    /\ pc = "actors"
    /\ \E k \in FailedArticles : \E m \in 1..Len(responses) :
          /\ m > k
          /\ m \notin FailedArticles
          /\ \E r \in Range(actors_table.table) : r.news_id = curated_table[m].id
          /\ curated_table[m].id # curated_table[k].id

\* The rows of the k-th article, read off the answer it got
ActorRow(news_id, actor, main) ==
    [news_id |-> news_id, actor_name |-> actor.name, actor_role |-> actor.role,
     is_main_actor |-> main]

ArticleRows(k) ==
    LET a == responses[k].arguments
    IN IF responses[k].kind = "arguments" /\ a.complete
       THEN [m \in 1..Len(a.main_actors) |-> ActorRow(curated_table[k].id, a.main_actors[m], TRUE)]
              \o [m \in 1..Len(a.other_actors) |-> ActorRow(curated_table[k].id, a.other_actors[m], FALSE)]
       ELSE <<>>

\* C9: the rows of extract_actors are, article after article in the order of the
\* batch, one row per main actor (is_main_actor true) followed by one row per
\* other actor (is_main_actor false), each with the article's id, the actor's name
\* and role, and nothing else.
ActorMapping ==
    (pc = "actors") =>
        actors_table.table = Concat([k \in 1..Len(responses) |-> ArticleRows(k)])

\* Two articles with different ids gave rows, the first a main and an other actor.
ActorMappingWitness ==
    /\ pc = "actors"
    /\ Len(responses) >= 2
    /\ curated_table[1].id # curated_table[2].id
    /\ Len(ArticleRows(1)) >= 2
    /\ Len(ArticleRows(2)) >= 1
    /\ \E a, b \in 1..Len(actors_table.table) :
          /\ actors_table.table[a].is_main_actor
          /\ ~actors_table.table[b].is_main_actor
          /\ actors_table.table[a].actor_name # actors_table.table[b].actor_name

PendingGuids ==
    SelectSeq([k \in 1..Len(feed[i]) |-> feed[i][k].guid],
              LAMBDA g : g \notin Range(load_state(prev_state)))

\* C10: a call of download_entries that returns a table returns the entries of the
\* document whose guid is not in the state S it loaded, in the order of the
\* document, each with the feed's name as category, and leaves S followed by
\* their guids as the persisted state.
IngestResult ==
    (runs >= 1 /\ t.raised = "none")
        => /\ Column(t.table, "id") = PendingGuids
           /\ \A k \in 1..Len(t.table) : t.table[k].category = RSS_FEEDS[i].rss_id
           /\ load_state(stateFile) = load_state(prev_state) \o PendingGuids

\* The entries the last call found unprocessed (the fetch having worked)
Unprocessed == unprocessed_entries(feed[i], load_state(prev_state))

TimestampFault ==
    \E k \in 1..Len(Unprocessed) : time_to_ts(Unprocessed[k].published_parsed).raised # "none"

\* C11: when the timestamp of one unprocessed entry of the fetched document does
\* not convert, download_entries raises, returns no record and leaves the state
\* file as it was.
ParseFaultAllOrNothing ==
    (pc = "returned" /\ t.fetch = "ok" /\ TimestampFault)
        => (t.raised # "none" /\ t.table = <<>> /\ stateFile = prev_state)

\* The faulty entry comes after a well-formed unprocessed one, the state file
\* holding ids already.
ParseFaultWitness ==
    /\ pc = "returned"
    /\ t.fetch = "ok"
    /\ Len(Unprocessed) >= 2
    /\ RowError(Unprocessed[1]) = "none"
    /\ time_to_ts(Unprocessed[2].published_parsed).raised # "none"
    /\ load_state(prev_state) # <<>>
    /\ t.raised \in {"TypeError", "ValueError"}

\* C12: the exception of a call tells its cause: a failed fetch is never raised as
\* EOFError nor as a timestamp error, a document without unprocessed entry is
\* raised as EOFError, and a timestamp that does not convert is raised as neither
\* EOFError nor the fetch error.
FailureKindsDistinct ==
    (pc = "returned") =>
        /\ t.fetch # "ok" => t.raised \notin {"none", "EOFError", "TypeError", "ValueError"}
        /\ (t.fetch = "ok" /\ Unprocessed = <<>>) => t.raised = "EOFError"
        /\ (t.fetch = "ok" /\ Unprocessed # <<>>
                /\ time_to_ts(Unprocessed[1].published_parsed).raised # "none")
              => t.raised \in {"TypeError", "ValueError"}

\* C13: the curated batch has the rows of the raw batch, as many and in the same
\* order, each with exactly the seven columns title, published_time, description,
\* link, id, thumbnail_url, category and the raw value in each.
ProjectionCorrect ==
    (pc \in {"extract", "actors"}) =>
        /\ Len(curated_table) = Len(table_sources[j])
        /\ \A k \in 1..Len(curated_table) :
              /\ DOMAIN curated_table[k] = {"title", "published_time", "description", "link",
                                            "id", "thumbnail_url", "category"}
              /\ \A c \in DOMAIN curated_table[k] : curated_table[k][c] = table_sources[j][k][c]

\* A curated batch of two different rows, one without thumbnail.
ProjectionWitness ==
    /\ pc = "extract"
    /\ Len(curated_table) = 2
    /\ curated_table[1].id # curated_table[2].id
    /\ curated_table[1].thumbnail_url = None
    /\ curated_table[2].thumbnail_url # None

\* C14: arguments whose category is none of Political Turmoil, New Product
\* Announced, Leadership Change, Housing Issues, Others are a validation failure:
\* analyze_text returns None, and no EventResponse it returns carries a category
\* outside these five.
ClosedCategoryEnum ==
    (pc = "analyzed") =>
        /\ (responses[1].kind = "arguments" /\ responses[1].arguments.category \notin CategoryEnum)
              => analysis.kind = "None"
        /\ analysis.kind = "EventResponse" => analysis.category \in CategoryEnum

SteadyStateRunSucceeds ==
    (RunOver /\ runs > 0 /\ fetch_failed = {} /\ failed_batch.run # runs)
        => (pc = "done" /\ err = "none")

IsPrefix(s, q) == Len(s) <= Len(q) /\ \A k \in 1..Len(s) : q[k] = s[k]

\* C17: the persisted list of ids only grows: after every call of download_entries
\* the list persisted before the call is a prefix of the list persisted after it,
\* so no id is removed.
StateGrowsMonotonically ==
    (runs >= 1) => IsPrefix(load_state(prev_state), load_state(stateFile))

\* The tables other than `path` are left alone by the step
OnlyAppendsTo(path, data) ==
    /\ tables'[path] = tables[path] \o data
    /\ \A p \in Paths \ {path} : tables'[p] = tables[p]

\* C18: in process_feeds of NewsCollector every batch is appended to raw-news, then
\* (curated) to curated-news, then its actors to the actors table, one append per
\* step; no step takes rows back; and a failed append ends the run: no table
\* changes after it until the next run.
AppendOrder ==
    [][variant = "collector" =>
          /\ \A p \in Paths : IsPrefix(tables[p], tables'[p])
          /\ tables' # tables =>
                \/ pc = "raw" /\ pc' = "curated" /\ j' = j
                     /\ OnlyAppendsTo(RAW_NEWS_PATH, table_sources[j])
                \/ pc = "curated" /\ pc' = "extract" /\ j' = j
                     /\ OnlyAppendsTo(CURATED_NEWS_PATH, curate_news(table_sources[j]))
                \/ pc = "actors" /\ pc' \in {"raw", "done"} /\ j' = j + 1
                     /\ OnlyAppendsTo(CURATED_ACTORS_PATH, actors_table.table)
          /\ pc' = "curated" => pc = "raw" /\ tables'[RAW_NEWS_PATH] # tables[RAW_NEWS_PATH]
          /\ pc' = "actors" => pc = "extract"
          /\ pc' = "extract" =>
                pc = "curated" /\ tables'[CURATED_NEWS_PATH] # tables[CURATED_NEWS_PATH]
          /\ pc' = "raw" => pc \in {"sources", "actors"}
          /\ failed_batch' # failed_batch => pc' = "failed" /\ tables' = tables
          /\ pc = "failed" => tables' = tables /\ pc' \in {"failed", "sources"}]_vars

\* A run of the collector whose first batch went to the three tables and whose
\* second batch went to raw-news before its curated append failed.
AppendOrderWitness ==
    /\ variant = "collector"
    /\ runs = 1
    /\ pc = "failed"
    /\ failed_batch.run = runs
    /\ j = 2
    /\ tables[CURATED_ACTORS_PATH] # <<>>
    /\ Len(tables[RAW_NEWS_PATH]) > Len(tables[CURATED_NEWS_PATH])
    /\ tables[CURATED_NEWS_PATH] # <<>>

\* C19: at the end of a first run that returned or was ended by a download (no
\* pending entries, fetch or parse fault), every id the run added to the persisted
\* list belongs to a record the run appended to a news table.
NoBatchLost ==
    (RunOver /\ runs = 1 /\ failed_batch.run # runs)
        => \A g \in Range(load_state(stateFile)) \ initial_ids :
              \E p \in {RAW_NEWS_PATH, CURATED_NEWS_PATH, SCRIPT_NEWS_PATH} :
                 \E k \in 1..Len(tables[p]) : tables[p][k].id = g

NewsIds(table) == {table[k].news_id : k \in 1..Len(table)}

\* C20: in every state of the runs of NewsCollector.process_feeds, after a failed
\* append too, every actor row names the id of a curated-news record, and every
\* id of the curated-news table is in the raw-news table.
ReferentialIntegrity ==
    (variant = "collector") =>
        /\ NewsIds(tables[CURATED_ACTORS_PATH]) \subseteq Ids(tables[CURATED_NEWS_PATH])
        /\ Ids(tables[CURATED_NEWS_PATH]) \subseteq Ids(tables[RAW_NEWS_PATH])

\* The actors append of the second batch failed: the actors table holds rows of
\* the first batch only, the news tables hold both batches.
ReferentialIntegrityWitness ==
    /\ variant = "collector"
    /\ pc = "failed"
    /\ err = "StoreError"
    /\ failed_batch.run = runs
    /\ j = 2
    /\ actors_table.table # <<>>
    /\ tables[CURATED_ACTORS_PATH] # <<>>
    /\ Len(tables[CURATED_NEWS_PATH]) = Len(tables[RAW_NEWS_PATH])
    /\ NewsIds(tables[CURATED_ACTORS_PATH]) # Ids(tables[CURATED_NEWS_PATH])

BothSaved ==
    \A w \in Invocations :
        workers[w].pc = "returned" /\ workers[w].raised = "none" /\ workers[w].io = "ok"

\* C21: when two invocations of download_entries for different feeds have both
\* returned a table and written the state, in whatever order their loads and
\* saves were taken, the persisted list holds the ids of both tables and no id
\* is in both tables.
StateSurvivesInterleaving ==
    BothSaved =>
        /\ \A w \in Invocations : Ids(workers[w].table) \subseteq Range(load_state(stateFile))
        /\ Ids(workers[1].table) \cap Ids(workers[2].table) = {}

\* C22: the script of main.py and NewsCollector.process_feeds do the same appends:
\* at the end of a first run that returned, whichever the variant, raw-news holds
\* the batches of the run, curated-news their projection, every actor row is in
\* the actors table and names a curated-news record, and no other location was
\* written.
VariantsEquivalent ==
    (pc = "done" /\ runs = 1) =>
        /\ tables[RAW_NEWS_PATH] = Concat(table_sources)
        /\ tables[CURATED_NEWS_PATH] = curate_news(Concat(table_sources))
        /\ NewsIds(tables[CURATED_ACTORS_PATH]) \subseteq Ids(tables[CURATED_NEWS_PATH])
        /\ \A p \in Paths \ {RAW_NEWS_PATH, CURATED_NEWS_PATH, CURATED_ACTORS_PATH} :
              tables[p] = <<>>

\* C23: a call whose unprocessed entries all carry a timestamp that converts does
\* not fail over a missing thumbnail: it returns one record per unprocessed entry,
\* and the record of an entry without thumbnail (media_thumbnail absent, or
\* present and empty) has thumbnail_url null.
OptionalThumbnail ==
    (/\ pc = "returned"
     /\ t.fetch = "ok"
     /\ Unprocessed # <<>>
     /\ \A k \in 1..Len(Unprocessed) : time_to_ts(Unprocessed[k].published_parsed).raised = "none")
        => /\ t.raised = "none"
           /\ Len(t.table) = Len(Unprocessed)
           /\ \A k \in 1..Len(Unprocessed) :
                 Unprocessed[k].media_thumbnail.list = <<>> => t.table[k].thumbnail_url = None

====
